---- MODULE Spec2Model ----
(***************************************************************************)
(* Model of anki_markdown_notes (src/__init__.py): import of markdown      *)
(* note files into the host collection (process_all_notes, process_file,   *)
(* delete_notes) and export of the host collection (export_all_notes).     *)
(*                                                                         *)
(* Text is modelled as sequences of tokens.  A token is a record           *)
(* [s, n]: a literal piece of text s (n = 0), or, when s = "\\d{13}", the   *)
(* 13-digit decimal numeral of the host identifier n.  A line is a         *)
(* sequence of tokens, a file a sequence of lines.  Every test the code    *)
(* makes on text (startswith, strip, the two regular expressions) is made  *)
(* here on the tokens.                                                     *)
(***************************************************************************)
EXTENDS Integers, Sequences, FiniteSets, TLC

\* ------------------------------------------------------------------ bounds
\* longest file of the exhaustive single-file family, in lines
MaxLines == 3
\* most top-level operations (imports, exports) of a session on the folder family
MaxOps == 3
\* most exports among them
MaxExports == 2
\* most imports of a session in which host calls may raise
MaxFaultyOps == 1
\* most host calls that raise in such a session
MaxFaults == 1
\* most imports of a session on the single-file family, which exports nothing
MaxPasses == 2
\* first identifier the host assigns; the files only name smaller ones
FirstFreshId == 3

\* -------------------------------------------------------------- constants
BASIC_MODEL == "Basic"
REVERSE_MODEL == "Basic (and reversed card)"

\* ------------------------------------------------------------------- text
Tok(s) == [s |-> s, n |-> 0]
Num(v) == [s |-> "\\d{13}", n |-> v]
SP == Tok(" ")
NL == Tok("\n")
BR == Tok("<br>")

IsNum(t) == t.s = "\\d{13}"
\* characters str.strip() removes
IsSpace(t) == t.s \in {" ", "\n"}

\* "<!-{2,}" and "-{2,}>" of the identifier-comment pattern
IsOpen(t) == t.s \in {"<!--", "<!---"}
IsClose(t) == t.s \in {"-->", "--->"}

RECURSIVE LStrip(_)
LStrip(l) == IF l # <<>> /\ IsSpace(Head(l)) THEN LStrip(Tail(l)) ELSE l

RECURSIVE RStrip(_)
RStrip(l) ==
    IF l # <<>> /\ IsSpace(l[Len(l)]) THEN RStrip(SubSeq(l, 1, Len(l) - 1)) ELSE l

\* str.strip()
Strip(l) == RStrip(LStrip(l))

\* str.startswith(p) for the markers "Q:", "QA:", "A:", each one token
StartsWith(l, p) == l # <<>> /\ l[1] = Tok(p)

\* line[2:] after "Q:" or "A:", line[3:] after "QA:": the text after the marker
AfterMarker(l) == Tail(l)

\* index of the first token at or after i that is not the space character
RECURSIVE SkipBlanks(_, _)
SkipBlanks(l, i) == IF i <= Len(l) /\ l[i] = SP THEN SkipBlanks(l, i + 1) ELSE i

\* re.search("<!-{2,} *\d{13,} *-{2,}>", line)
is_id_comment(l) ==
    \E i \in 1..Len(l) :
        /\ IsOpen(l[i])
        /\ LET j == SkipBlanks(l, i + 1)
           IN /\ j <= Len(l)
              /\ IsNum(l[j])
              /\ LET k == SkipBlanks(l, j + 1)
                 IN k <= Len(l) /\ IsClose(l[k])

\* identifiers: the host's are integers, those read from a file are strings
IntId(v) == [ty |-> "int", v |-> v]
StrId(v) == [ty |-> "str", v |-> v]
NoId == [ty |-> "none", v |-> 0]
\* str(cid)
Str(id) == StrId(id.v)

\* re.findall("\d{13,}", line)[0]: the first run of 13 digits, as a string
get_id_from_comment(l) ==
    LET i == CHOOSE i \in 1..Len(l) : IsNum(l[i]) /\ \A j \in 1..(i - 1) : ~IsNum(l[j])
    IN StrId(l[i].n)

\* "<!-- {} -->\n".format(id)
IdComment(id) == <<Tok("<!--"), SP, Num(id.v), SP, Tok("-->"), NL>>

\* "<br>".join(lines)
RECURSIVE Join(_)
Join(ls) ==
    IF ls = <<>> THEN <<>>
    ELSE IF Len(ls) = 1 THEN ls[1]
    ELSE ls[1] \o <<BR>> \o Join(Tail(ls))

\* ------------------------------------------------------------- file names
\* A path is [dir, name]: the directories below the picked folder, and the
\* file name split at its dots ("a.md" is <<"a", "md">>).
Path(dir, name) == [dir |-> dir, name |-> name]

\* glob's "*.md"
IsMarkdown(p) == Len(p.name) >= 2 /\ p.name[Len(p.name)] = "md"

\* os.path.basename(file).split('.')[0]
TagOf(p) == p.name[1]

\* file + ".temp"
TempOf(p) == Path(p.dir, p.name \o <<"temp">>)

\* ------------------------------------------------------------------ state
VARIABLES
    fs,      \* the file system: path of each existing file -> its lines
    dirs,    \* the directories that exist
    host,    \* the host collection: [notes, decks, models, next]
    pc,      \* where the running operation stands
    left,    \* operations, exports among them, and raising host calls still to come
    imp,     \* locals of process_all_notes
    pf,      \* locals of process_file
    info,    \* what showInfo was called with, in order: Msg records
    report,  \* what the last finished operation returned
    run,     \* history: what the running (or last) import started from and did
    hist     \* history: the operations finished so far, in order

vars == <<fs, dirs, host, pc, left, imp, pf, info, report, run, hist>>

\* ------------------------------------------------------------ user messages
\* a message of showInfo: its fixed text and what is formatted into it (the
\* folder, the deck counter, the deck names)
Msg(text, path, counter, decks) ==
    [text |-> text, path |-> path, counter |-> counter, decks |-> decks]

\* ---------------------------------------------------------- host collection
\* A note: fields[0], fields[1], tags, note type, and the decks its cards are
\* in (findNotes("deck:" + d) lists the note for each of them).
Note(front, back, tags, model, decks) ==
    [front |-> front, back |-> back, tags |-> tags, model |-> model, decks |-> decks]

\* f with x mapped to y
Put(f, x, y) == [k \in DOMAIN f \cup {x} |-> IF k = x THEN y ELSE f[k]]

\* f without the keys in ks
Drop(f, ks) == [k \in DOMAIN f \ ks |-> f[k]]

\* add_note: [host, id], id = NoId when the note type does not exist
add_note(h, front, back, tag, model, deck, note_id) ==
    IF model \notin h.models
    THEN [host |-> h, id |-> NoId]
    ELSE LET id == IF note_id # NoId THEN note_id ELSE IntId(h.next)
         IN [host |-> [h EXCEPT
                         !.decks = @ \cup {deck},
                         !.notes = Put(@, id.v, Note(front, back, {tag}, model, {deck})),
                         !.next = IF note_id # NoId THEN @ ELSE @ + 1],
             id |-> id]

\* modify_note on the note getNote(note_id) returned: [host, id]
modify_note(h, note_id, front, back, tag) ==
    [host |-> [h EXCEPT !.notes[note_id.v] =
                  [@ EXCEPT !.front = front, !.back = back, !.tags = @ \cup {tag}]],
     id |-> note_id]

\* mw.col.getNote(id) finds a note (it raises otherwise)
HasNote(h, id) == id.v \in DOMAIN h.notes

\* ------------------------------------------------------------ process_file
NoFile == Path(<<>>, <<>>)

IdlePf ==
    [file |-> NoFile, deck |-> "", tag |-> "", pos |-> 0,
     front |-> <<>>, back |-> <<>>, model |-> "", current_id |-> NoId,
     to_write |-> <<>>, found |-> {}]

\* InsertBeforeLast appending instead
InsertAtEnd(l, x) == Append(l, x)

\* list.insert(len(l) - 1, x)
InsertBeforeLast(l, x) == SubSeq(l, 1, Len(l) - 1) \o <<x>> \o <<l[Len(l)]>>

\* l[-2] = x
SetBeforeLast(l, x) == [l EXCEPT ![Len(l) - 1] = x]

\* IsComplete asking for a front only
IsCompleteFrontOnly(st) == st.front # <<>>

\* "front and back" of line 156: both lists hold a line (a line may be empty text)
IsComplete(st) == st.front # <<>> /\ st.back # <<>>

\* the calls add_note makes on the host, in the order it makes them: models.byName,
\* decks.current, decks.id, decks.get, newNote, addNote, save
AddNoteCalls == {"byName", "current", "id", "get", "newNote", "addNote", "save"}

\* The host calls of handle_note that may raise: getNote although the note is
\* there, modify_note, and each call add_note makes. A call that raises has not
\* changed the host itself; the calls made before it have.
HostCalls == {"lookup", "update"} \cup AddNoteCalls

\* the host after add_note raised in its call at: decks.id has made the deck from
\* decks.get on, and addNote has added the note when save raises
add_note_raised(h, front, back, tag, model, deck, note_id, at) ==
    IF at \in {"byName", "current", "id"} THEN h
    ELSE IF at \in {"get", "newNote", "addNote"}
    THEN [h EXCEPT !.decks = @ \cup {deck}]
    ELSE add_note(h, front, back, tag, model, deck, note_id).host

\* handle_note on st makes the calls in raising: one of getNote and modify_note
\* at most, and those only for an identifier the host has; add_note when the
\* block has no identifier, or a stale one, or when the try block raised, and
\* then one of its calls at most, one after byName only when the note type exists
CanRaise(h, st, raising) ==
    \/ raising = {}
    \/ /\ IsComplete(st)
       /\ LET tried == raising \cap {"lookup", "update"}
              made == raising \cap AddNoteCalls
          IN /\ Cardinality(tried) <= 1
             /\ tried # {} => (st.current_id # NoId /\ HasNote(h, st.current_id))
             /\ Cardinality(made) <= 1
             /\ made # {} =>
                    /\ st.current_id = NoId \/ ~HasNote(h, st.current_id) \/ tried # {}
                    /\ made # {"byName"} => st.model \in h.models

\* handle_note on the locals st of process_file while the host calls in raising
\* raise: the host afterwards, the lines written to the temp file, the identifier
\* got, and what was done ("raised": the exception left handle_note)
handle_note(h, st, raising) ==
    IF ~IsComplete(st)
    THEN [host |-> h, out |-> <<>>, id |-> NoId, did |-> "dropped"]
    ELSE LET front_text == Join(st.front)
             back_text == Join(st.back)
             made == raising \cap AddNoteCalls
             escaped ==
                 [host |-> add_note_raised(h, front_text, back_text, st.tag, st.model,
                                           st.deck, st.current_id,
                                           CHOOSE at \in made : TRUE),
                  out |-> <<>>, id |-> NoId, did |-> "raised"]
         IN IF st.current_id # NoId
            THEN IF HasNote(h, st.current_id) /\ raising \cap {"lookup", "update"} = {}
                 THEN LET r == modify_note(h, st.current_id, front_text, back_text, st.tag)
                      IN [host |-> r.host, out |-> st.to_write, id |-> r.id,
                          did |-> "updated"]
                 ELSE IF made # {} THEN escaped
                 ELSE LET r == add_note(h, front_text, back_text, st.tag, st.model,
                                        st.deck, st.current_id)
                      IN [host |-> r.host,
                          out |-> IF r.id # NoId
                                  THEN SetBeforeLast(st.to_write, IdComment(st.current_id))
                                  ELSE st.to_write,
                          id |-> r.id,
                          did |-> IF r.id # NoId THEN "created" ELSE "failed"]
            ELSE IF made # {} THEN escaped
            ELSE LET r == add_note(h, front_text, back_text, st.tag, st.model,
                                   st.deck, NoId)
                 IN [host |-> r.host,
                     out |-> IF r.id # NoId
                             THEN InsertBeforeLast(st.to_write, IdComment(r.id))
                             ELSE st.to_write,
                     id |-> r.id,
                     did |-> IF r.id # NoId THEN "created" ELSE "failed"]

\* the locals after handle_note returned r: the identifier joins the file's set,
\* and the list to_write is as handle_note left it (lines 178 and 183 change it
\* in place)
Resolved(st, r) ==
    [st EXCEPT !.found = IF r.id # NoId THEN @ \cup {r.id} ELSE @,
               !.to_write = IF r.did = "dropped" THEN @ ELSE r.out]

\* the history of the run, with the call of handle_note on st that returned r
Logged(st, r, raising) ==
    IF r.did = "raised"
    THEN [run EXCEPT !.raised = Append(@, [file |-> st.file, front |-> st.front,
                                           back |-> st.back, last |-> st.pos - 1,
                                           raising |-> raising])]
    ELSE
    [run EXCEPT
       !.created = IF r.did = "created" THEN @ \cup {r.id.v} ELSE @,
       !.updated = IF r.did = "updated" THEN @ \cup {r.id.v} ELSE @,
       !.calls = Append(@, [file |-> st.file, front |-> st.front, back |-> st.back,
                            model |-> st.model, current_id |-> st.current_id,
                            to_write |-> st.to_write, last |-> st.pos - 1,
                            out |-> r.out, raising |-> raising,
                            id |-> r.id, did |-> r.did])]

\* the locals after one non-blank line of a note was classified
Classified(st, line) ==
    IF StartsWith(line, "Q:")
    THEN [st EXCEPT !.model = BASIC_MODEL,
                    !.front = Append(@, Strip(AfterMarker(line)))]
    ELSE IF StartsWith(line, "QA:")
    THEN [st EXCEPT !.model = REVERSE_MODEL,
                    !.front = Append(@, Strip(AfterMarker(line)))]
    ELSE IF is_id_comment(line)
    THEN [st EXCEPT !.current_id = get_id_from_comment(line)]
    ELSE IF StartsWith(line, "A:")
    THEN [st EXCEPT !.back = Append(@, Strip(AfterMarker(line)))]
    ELSE IF st.back = <<>>
    THEN [st EXCEPT !.front = Append(@, Strip(line))]
    ELSE [st EXCEPT !.back = Append(@, Strip(line))]

\* the accumulation state emptied after a blank line
Cleared(st) ==
    [st EXCEPT !.to_write = <<>>, !.front = <<>>, !.back = <<>>,
               !.current_id = NoId, !.model = ""]

\* IsPassThrough with the blank-line test made first: a blank line is always
\* taken as the end of a note
IsPassThroughBlankEndsNote(st, line) ==
    /\ ~(StartsWith(line, "Q:") \/ StartsWith(line, "QA:") \/ st.to_write # <<>>)
    /\ Strip(line) # <<>>

\* the test of lines 198-199: the line goes straight to the temp file
IsPassThrough(st, line) ==
    ~(StartsWith(line, "Q:") \/ StartsWith(line, "QA:") \/ st.to_write # <<>>)

\* temp_file.writelines(lines) that writes nothing
WriteNothing(content, lines) == content

\* temp_file.writelines(lines) onto the temp file's content
WriteLines(content, lines) == content \o lines

\* the sets of raising host calls the session can still afford
Affordable == {raising \in SUBSET HostCalls : Cardinality(raising) <= left.faults}

\* handle_note was called on st and returned r, or raised: an exception leaves
\* process_file and process_all_notes with the host as the calls made so far
\* left it, the with blocks close both files
Handled(st, r, raising, after, then) ==
    /\ run' = Logged(st, r, raising)
    /\ left' = [left EXCEPT !.faults = @ - Cardinality(raising)]
    /\ IF r.did = "raised"
       THEN /\ pc' = "raised"
            /\ pf' = st
            /\ host' = r.host
            /\ UNCHANGED fs
       ELSE /\ pc' = then
            /\ host' = r.host
            /\ fs' = [fs EXCEPT ![TempOf(st.file)] = WriteLines(@, r.out)]
            /\ pf' = after

\* process_file is entered for file f with deck d: locals set, f opened for
\* reading and the temp file created empty
OpenFile(f, d) ==
    /\ pf' = [IdlePf EXCEPT !.file = f, !.deck = d, !.tag = TagOf(f), !.pos = 1]
    /\ fs' = Put(fs, TempOf(f), <<>>)
    /\ pc' = "scan"

\* one turn of "for line in original_file"
ScanLine ==
    /\ pc = "scan"
    /\ pf.pos <= Len(fs[pf.file])
    /\ LET line == fs[pf.file][pf.pos]
           temp == TempOf(pf.file)
       IN IF IsPassThrough(pf, line)
          THEN /\ fs' = [fs EXCEPT ![temp] = Append(@, line)]
               /\ pf' = [pf EXCEPT !.pos = @ + 1]
               /\ UNCHANGED <<host, run, pc, left>>
          ELSE LET st == [pf EXCEPT !.to_write = Append(@, line), !.pos = @ + 1]
               IN IF Strip(line) = <<>>
                  THEN \E raising \in Affordable :
                           /\ CanRaise(host, st, raising)
                           /\ LET r == handle_note(host, st, raising)
                              IN Handled(st, r, raising, Cleared(Resolved(st, r)), "scan")
                  ELSE /\ pf' = Classified(st, line)
                       /\ UNCHANGED <<fs, host, run, pc, left>>
    /\ UNCHANGED <<dirs, imp, info, report, hist>>

\* the input ended: the last buffered line gets its line end, a blank line is
\* appended and handle_note runs once more; both files are closed
EndOfFile ==
    /\ pc = "scan"
    /\ pf.pos > Len(fs[pf.file])
    /\ LET tw == IF pf.to_write # <<>>
                 THEN [pf.to_write EXCEPT ![Len(pf.to_write)] = Strip(@) \o <<NL>>]
                 ELSE pf.to_write
           st == [pf EXCEPT !.to_write = Append(tw, <<NL>>)]
       IN \E raising \in Affordable :
              /\ CanRaise(host, st, raising)
              /\ LET r == handle_note(host, st, raising)
                 IN Handled(st, r, raising, Resolved(st, r), "remove")
    /\ UNCHANGED <<dirs, imp, info, report, hist>>

\* os.remove(file)
RemoveOriginal ==
    /\ pc = "remove"
    /\ fs' = Drop(fs, {pf.file})
    /\ pc' = "rename"
    /\ UNCHANGED <<dirs, host, left, imp, pf, info, report, run, hist>>

\* ------------------------------------------------------- process_all_notes
ROOT == <<>>

\* glob(os.path.join(notes_path, "*.md"))
GlobRoot(files, notes_path) ==
    {p \in DOMAIN files : IsMarkdown(p) /\ p.dir = notes_path}

\* GlobSub descending into every level below notes_path
GlobSubRecursive(files, notes_path) ==
    {p \in DOMAIN files :
        /\ IsMarkdown(p)
        /\ Len(p.dir) >= Len(notes_path) + 1
        /\ SubSeq(p.dir, 1, Len(notes_path)) = notes_path}

\* glob(os.path.join(notes_path, "*", "*.md"))
GlobSub(files, notes_path) ==
    {p \in DOMAIN files :
        /\ IsMarkdown(p)
        /\ Len(p.dir) = Len(notes_path) + 1
        /\ SubSeq(p.dir, 1, Len(notes_path)) = notes_path}

\* os.path.basename(os.path.dirname(markdown_file))
FolderName(p) == p.dir[Len(p.dir)]

\* deck_counter.get(deck, 0)
Get(counter, deck) == IF deck \in DOMAIN counter THEN counter[deck] ELSE 0

EmptyCounter == [d \in {} |-> 0]

IdleImp ==
    [path |-> ROOT, phase |-> "", pending |-> {}, deck_counter |-> EmptyCounter,
     ids |-> {}]

NoRun ==
    [path |-> ROOT, before |-> [notes |-> [k \in {} |-> 0]], files |-> [k \in {} |-> 0],
     created |-> {}, updated |-> {}, deleted |-> {}, processed |-> {},
     yielded |-> {}, calls |-> <<>>, raised |-> <<>>]

\* the folders an import may be pointed at: the notes folder, or the folder an
\* export made inside it
ImportFolders == {ROOT, <<"Notes">>}

\* "Import from Markdown Notes": import_notes_ui got the folder notes_path from
\* its dialog and process_all_notes(notes_path) is entered, for a folder that
\* exists
ImportStart(notes_path) ==
    /\ pc = "idle"
    /\ notes_path \in dirs
    /\ left.ops > 0
    /\ left' = [left EXCEPT !.ops = @ - 1]
    /\ imp' = [IdleImp EXCEPT !.path = notes_path, !.phase = "root",
                              !.pending = GlobRoot(fs, notes_path)]
    /\ run' = [NoRun EXCEPT !.path = notes_path, !.before = host, !.files = fs]
    /\ pc' = "files"
    /\ pf' = IdlePf
    /\ UNCHANGED <<fs, dirs, host, info, report, hist>>

\* the next file of the running loop is handed to process_file
StartFile ==
    /\ pc = "files"
    /\ \E f \in imp.pending :
        LET deck == IF imp.phase = "root" THEN "Default" ELSE FolderName(f)
        IN /\ OpenFile(f, deck)
           /\ imp' = [imp EXCEPT !.pending = @ \ {f}]
           /\ run' = [run EXCEPT !.processed = @ \cup {<<f, deck>>}]
    /\ UNCHANGED <<dirs, host, left, info, report, hist>>

\* os.rename(temp_file_path, file); process_file returns and the caller counts
\* the file's notes and collects their identifiers
RenameTemp ==
    /\ pc = "rename"
    /\ fs' = Drop(Put(fs, pf.file, fs[TempOf(pf.file)]), {TempOf(pf.file)})
    /\ imp' = [imp EXCEPT
                 !.deck_counter = Put(@, pf.deck, Get(@, pf.deck) + Cardinality(pf.found)),
                 !.ids = @ \cup pf.found]
    /\ run' = [run EXCEPT !.yielded = @ \cup {<<id.v, pf.deck>> : id \in pf.found}]
    /\ pc' = "files"
    /\ UNCHANGED <<dirs, host, left, pf, info, report, hist>>

\* the loop over the root's files is over: the subfolders' files are listed
SubFolders ==
    /\ pc = "files"
    /\ imp.pending = {}
    /\ imp.phase = "root"
    /\ imp' = [imp EXCEPT !.phase = "sub", !.pending = GlobSub(fs, imp.path)]
    /\ UNCHANGED <<fs, dirs, host, pc, left, pf, info, report, run, hist>>

\* findNotes("deck:" + deck), filtered by "str(cid) not in existing_notes_ids"
Unlisted(h, deck, existing_notes_ids) ==
    {cid \in DOMAIN h.notes :
        deck \in h.notes[cid].decks /\ Str(IntId(cid)) \notin existing_notes_ids}

RECURSIVE CountOver(_, _, _)
CountOver(h, decks, existing_notes_ids) ==
    IF decks = {} THEN 0
    ELSE LET d == CHOOSE d \in decks : TRUE
         IN Cardinality(Unlisted(h, d, existing_notes_ids))
              + CountOver(h, decks \ {d}, existing_notes_ids)

\* delete_notes: [host, notes_to_delete, num_deleted]
delete_notes(h, existing_notes_ids) ==
    LET notes_to_delete == UNION {Unlisted(h, d, existing_notes_ids) : d \in h.decks}
    IN [host |-> [h EXCEPT !.notes = Drop(@, notes_to_delete)],
        notes_to_delete |-> notes_to_delete,
        num_deleted |-> CountOver(h, h.decks, existing_notes_ids)]

\* the (front, back, tag, note type) tuples of the host's notes
Tuples(h) ==
    UNION {{<<h.notes[k].front, h.notes[k].back, t, h.notes[k].model>> :
               t \in h.notes[k].tags} : k \in DOMAIN h.notes}

\* both loops are over: lines 62-70 of process_all_notes
Reconcile ==
    /\ pc = "files"
    /\ imp.pending = {}
    /\ imp.phase = "sub"
    /\ IF DOMAIN imp.deck_counter = {}
       THEN /\ info' = Append(info, Msg("Failed to find any cards inside: ", imp.path,
                                        EmptyCounter, {}))
            /\ report' = [op |-> "import", counter |-> imp.deck_counter, decks |-> {}]
            /\ UNCHANGED <<host, run>>
            /\ hist' = Append(hist, [op |-> "import", path |-> imp.path, host |-> host,
                                     run |-> run])
       ELSE LET r == delete_notes(host, imp.ids)
            IN /\ host' = r.host
               /\ report' = [op |-> "import",
                             counter |-> Put(imp.deck_counter, "DELETED", r.num_deleted),
                             decks |-> {}]
               /\ info' = IF r.num_deleted # 0
                          THEN Append(info, Msg("Deleted {} notes", imp.path,
                                                EmptyCounter, {}))
                          ELSE info
               /\ run' = [run EXCEPT !.deleted = r.notes_to_delete]
               /\ hist' = Append(hist, [op |-> "import", path |-> imp.path,
                                        host |-> r.host, run |-> run'])
    /\ pc' = "imported"
    /\ UNCHANGED <<fs, dirs, left, imp, pf>>

\* process_all_notes has returned to import_notes_ui, which shows the counter
ImportShown ==
    /\ pc = "imported"
    /\ info' = Append(info, Msg("Notes handled in each deck - ", ROOT, report.counter, {}))
    /\ pc' = "idle"
    /\ UNCHANGED <<fs, dirs, host, left, imp, pf, report, run, hist>>

\* the dialog of import_notes_ui or export_notes_ui was left without a folder:
\* nothing is done
DialogCancelled ==
    /\ pc = "idle"
    /\ UNCHANGED vars

\* -------------------------------------------------------- export_all_notes
\* str.replace("<br>", "\n"), encode("utf-8") and format() of the bytes: the
\* bytes are written as their literal, b'...', with line feeds escaped
RECURSIVE BytesLiteralBody(_)
BytesLiteralBody(text) ==
    IF text = <<>> THEN <<>>
    ELSE <<IF Head(text) = BR THEN Tok("\\n") ELSE Head(text)>>
           \o BytesLiteralBody(Tail(text))

Formatted(text) == <<Tok("b'")>> \o BytesLiteralBody(text) \o <<Tok("'")>>

\* write_note: the lines written for note cid
write_note(note, cid) ==
    IF note.model \notin {BASIC_MODEL, REVERSE_MODEL}
    THEN <<>>
    ELSE LET q_prefix == IF note.model = BASIC_MODEL THEN "Q:" ELSE "QA:"
         IN << <<Tok(q_prefix), SP>> \o Formatted(note.front) \o <<NL>>,
               <<Tok("A:"), SP>> \o Formatted(note.back) \o <<NL>>,
               IdComment(IntId(cid)),
               <<NL>> >>

\* the notes of ids written one after the other, by ascending identifier
RECURSIVE WriteNotes(_, _)
WriteNotes(h, ids) ==
    IF ids = {} THEN <<>>
    ELSE LET cid == CHOOSE c \in ids : \A d \in ids : c <= d
         IN write_note(h.notes[cid], cid) \o WriteNotes(h, ids \ {cid})

\* the deck file: "# {} \n\n" and the deck's notes
DeckFile(h, deck) ==
    << <<Tok("#"), SP, Tok(deck), SP, NL>>, <<NL>> >>
      \o WriteNotes(h, {cid \in DOMAIN h.notes : deck \in h.notes[cid].decks})

ExportFolder(notes_path) == notes_path \o <<"Notes">>

DeckPath(notes_path, deck) == Path(ExportFolder(notes_path) \o <<deck>>, <<deck, "md">>)

\* export_all_notes(notes_path)
\* ExportAborts that never finds the folder
ExportNeverAborts(notes_path) == FALSE

\* os.path.exists(notes_path) of line 299
ExportAborts(notes_path) == ExportFolder(notes_path) \in dirs

\* "Export to Markdown Notes": export_notes_ui got the folder notes_path from
\* its dialog and calls export_all_notes(notes_path)
ExportAll(notes_path) ==
    /\ pc = "idle"
    /\ left.ops > 0 /\ left.exports > 0
    /\ left' = [left EXCEPT !.ops = @ - 1, !.exports = @ - 1]
    /\ IF ExportAborts(notes_path)
       THEN /\ info' = Append(info, Msg("Aborting - 'Notes' folder already exists", ROOT,
                                        EmptyCounter, {}))
            /\ report' = [op |-> "export", counter |-> EmptyCounter, decks |-> {}]
            /\ UNCHANGED <<fs, dirs>>
       ELSE /\ dirs' = dirs \cup {ExportFolder(notes_path)}
                            \cup {ExportFolder(notes_path) \o <<d>> : d \in host.decks}
            /\ fs' = [p \in DOMAIN fs \cup {DeckPath(notes_path, d) : d \in host.decks} |->
                        IF \E d \in host.decks : p = DeckPath(notes_path, d)
                        THEN DeckFile(host, FolderName(p))
                        ELSE fs[p]]
            /\ report' = [op |-> "export", counter |-> EmptyCounter, decks |-> host.decks]
            /\ UNCHANGED info
    /\ hist' = Append(hist, [op |-> "export", path |-> notes_path, host |-> host,
                             run |-> NoRun])
    /\ pc' = "exported"
    /\ UNCHANGED <<host, imp, pf, run>>

\* export_all_notes has returned to export_notes_ui, which names the decks it
\* got; an aborted export returned 0 and nothing is shown
ExportShown ==
    /\ pc = "exported"
    /\ info' = IF report.decks # {}
               THEN Append(info, Msg("Exported these decks - ", ROOT, EmptyCounter,
                                     report.decks))
               ELSE info
    /\ pc' = "idle"
    /\ UNCHANGED <<fs, dirs, host, left, imp, pf, report, run, hist>>

\* ---------------------------------------------------------- initial states
\* the lines the files are made of
LineQ == <<Tok("Q:"), SP, Tok("x"), NL>>
LineQA == <<Tok("QA:"), SP, Tok("u"), NL>>
LineA == <<Tok("A:"), SP, Tok("y"), NL>>
LineText == <<SP, Tok("z"), SP, NL>>
LineBlank == <<NL>>
LineId1 == <<Tok("<!--"), SP, Num(1), SP, Tok("-->"), NL>>
LineId2 == <<Tok("<!---"), Num(2), Tok("--->"), NL>>

Vocabulary == {LineQ, LineQA, LineA, LineText, LineBlank, LineId1, LineId2}

Contents == UNION {[1..n -> Vocabulary] : n \in 0..MaxLines}

\* the file without the line end of its last line
Chopped(c) ==
    IF c # <<>> /\ Strip(c[Len(c)]) # <<>>
    THEN [c EXCEPT ![Len(c)] = SubSeq(@, 1, Len(@) - 1)]
    ELSE c

\* files of the folder family
FileNew == <<LineQ, LineA, LineBlank>>
FileId1 == <<LineText, LineQA, LineA, LineId1, LineBlank, LineText>>
FileNoCards == <<LineText>>
\* a question and an answer that are both the empty text
FileBare == <<<<Tok("Q:"), NL>>, <<Tok("A:"), NL>>, LineBlank>>
FolderContents == {FileNew, FileId1, FileNoCards, FileBare}

PathA == Path(ROOT, <<"a", "md">>)
PathB == Path(<<"Sub">>, <<"b", "md">>)
PathC == Path(<<"Sub", "Deeper">>, <<"c", "md">>)

BothModels == {BASIC_MODEL, REVERSE_MODEL}

NoNotes == [k \in {} |-> 0]

OldNote(deck) == Note(<<Tok("o")>>, <<Tok("p")>>, {"old"}, BASIC_MODEL, {deck})

\* the host collections an operation may start from
Hosts ==
    { [notes |-> NoNotes, decks |-> {"Default"}, models |-> BothModels,
       next |-> FirstFreshId],
      [notes |-> Put(Put(NoNotes, 1, OldNote("Default")), 2, OldNote("Old")),
       decks |-> {"Default", "Old"}, models |-> BothModels, next |-> FirstFreshId],
      [notes |-> Put(NoNotes, 1, OldNote("Default")), decks |-> {"Default"},
       models |-> {BASIC_MODEL}, next |-> FirstFreshId] }

\* a host whose one note has cards in two decks: findNotes lists it for both
HostSplit ==
    [notes |-> Put(NoNotes, 1, Note(<<Tok("o")>>, <<Tok("p")>>, {"old"}, REVERSE_MODEL,
                                    {"Default", "Old"})),
     decks |-> {"Default", "Old"}, models |-> BothModels, next |-> FirstFreshId]

\* every directory on the way to a file of files
DirsOf(files) ==
    {ROOT} \cup UNION {{SubSeq(p.dir, 1, n) : n \in 0..Len(p.dir)} : p \in DOMAIN files}

\* a file system holding the given (path, content) pairs whose content is present
Absent == << <<Tok("absent")>> >>

Present(pairs) ==
    LET there == {pr \in pairs : pr[2] # Absent}
    IN [p \in {pr[1] : pr \in there} |-> (CHOOSE pr \in there : pr[1] = p)[2]]

\* a folder with files at the root, in a subfolder and two levels down
InitFolder ==
    \E a \in FolderContents \cup {Absent}, b \in FolderContents \cup {Absent},
       c \in {FileNew, Absent} :
        /\ fs = Present({<<PathA, a>>, <<PathB, b>>, <<PathC, c>>})
        /\ left = [ops |-> MaxOps, exports |-> MaxExports, faults |-> 0]
        /\ host \in Hosts \cup {HostSplit}

\* a folder with one file, of any content up to MaxLines lines
InitSingle ==
    \E c \in Contents, chop \in BOOLEAN :
        /\ fs = Present({<<PathA, IF chop THEN Chopped(c) ELSE c>>})
        /\ left = [ops |-> MaxPasses, exports |-> 0, faults |-> 0]
        /\ host \in Hosts

\* a folder with a file at the root and one in a subfolder, on a host whose
\* calls may raise
InitFaulty ==
    \E a \in FolderContents, b \in {FileId1, Absent} :
        /\ fs = Present({<<PathA, a>>, <<PathB, b>>})
        /\ left = [ops |-> MaxFaultyOps, exports |-> 0, faults |-> MaxFaults]
        /\ host \in Hosts

Init ==
    /\ InitFolder \/ InitSingle \/ InitFaulty
    /\ dirs = DirsOf(fs)
    /\ pc = "idle"
    /\ imp = IdleImp
    /\ pf = IdlePf
    /\ info = <<>>
    /\ report = [op |-> "", counter |-> EmptyCounter, decks |-> {}]
    /\ run = NoRun
    /\ hist = <<>>

Next ==
    \/ \E notes_path \in ImportFolders : ImportStart(notes_path)
    \/ StartFile
    \/ ScanLine
    \/ EndOfFile
    \/ RemoveOriginal
    \/ RenameTemp
    \/ SubFolders
    \/ Reconcile
    \/ ImportShown
    \/ ExportAll(ROOT)
    \/ ExportShown
    \/ DialogCancelled

Spec == Init /\ [][Next]_vars

\* ================================================================= claims
\* What the claims speak of, stated on the files themselves.

\* process_all_notes has just returned; run describes the import
ImportDone == pc = "imported" /\ hist # <<>> /\ hist[Len(hist)].op = "import"

\* the import that just finished followed an import of the same folder
ImportedTwice ==
    /\ ImportDone
    /\ Len(hist) >= 2
    /\ hist[Len(hist) - 1].op = "import"
    /\ hist[Len(hist) - 1].path = hist[Len(hist)].path

\* the files process_file was entered for and has returned from
Finished ==
    {p[1] : p \in run.processed} \ (IF pc \in {"scan", "remove", "rename", "raised"} THEN {pf.file} ELSE {})

IsQuestion(l) == StartsWith(l, "Q:") \/ StartsWith(l, "QA:")

IsBlankLine(l) == Strip(l) = <<>>

\* the opening line of the note block that line i of file c lies in, 0 when it
\* lies outside every block: a block opens at a Q:/QA: line outside any block
\* and runs up to and including the next blank line
RECURSIVE BlockOf(_, _)
BlockOf(c, i) ==
    IF i = 0 THEN 0
    ELSE LET before == IF i = 1 THEN 0 ELSE BlockOf(c, i - 1)
             open == IF before # 0 /\ ~IsBlankLine(c[i - 1]) THEN before ELSE 0
         IN IF open # 0 THEN open ELSE IF IsQuestion(c[i]) THEN i ELSE 0

\* the lines of c from line i on that lie outside every block, in order
RECURSIVE OutsideFrom(_, _)
OutsideFrom(c, i) ==
    IF i > Len(c) THEN <<>>
    ELSE (IF BlockOf(c, i) = 0 THEN <<c[i]>> ELSE <<>>) \o OutsideFrom(c, i + 1)

OutsideLines(c) == OutsideFrom(c, 1)

\* a can be got from b by deleting lines
RECURSIVE IsSubseq(_, _)
IsSubseq(a, b) ==
    IF a = <<>> THEN TRUE
    ELSE IF b = <<>> THEN FALSE
    ELSE IF Head(a) = Head(b) THEN IsSubseq(Tail(a), Tail(b))
    ELSE IsSubseq(a, Tail(b))

\* C9: every line of a file that lies outside any note block is in the rewritten
\* file, unchanged and in its original order; a file with no block at all is
\* rewritten as it was
C9_PassThrough ==
    \A f \in Finished :
        /\ IsSubseq(OutsideLines(run.files[f]), fs[f])
        /\ OutsideLines(run.files[f]) = run.files[f] => fs[f] = run.files[f]

\* a finished file whose note was resolved and that has outside lines both before
\* the block and after its blank line
C9_Witness ==
    \E f \in Finished :
        LET c == run.files[f]
        IN /\ \E i \in 1..Len(run.calls) :
                  run.calls[i].file = f /\ run.calls[i].did \in {"created", "updated"}
           /\ \E i, j, k \in 1..Len(c) :
                  /\ i < j /\ j < k
                  /\ BlockOf(c, i) = 0 /\ BlockOf(c, j) # 0 /\ BlockOf(c, k) = 0
                  /\ ~IsBlankLine(c[i]) /\ ~IsBlankLine(c[k])

\* C10: a markdown file directly in the picked folder is processed with deck
\* "Default", one in a subfolder with the subfolder's name, and a file two or more
\* levels down is never processed: it is not rewritten and yields no note
C10_DeckRouting ==
    /\ \A p \in run.processed :
           \/ p[1].dir = run.path /\ p[2] = "Default"
           \/ /\ Len(p[1].dir) = Len(run.path) + 1
              /\ p[2] = p[1].dir[Len(p[1].dir)]
    /\ \A f \in DOMAIN run.files :
           (Len(f.dir) >= Len(run.path) + 2
              /\ SubSeq(f.dir, 1, Len(run.path)) = run.path) =>
               /\ f \in DOMAIN fs /\ fs[f] = run.files[f]
               /\ \A i \in 1..Len(run.calls) : run.calls[i].file # f
    /\ ImportDone =>
           \A f \in DOMAIN run.files :
               (IsMarkdown(f) /\ Len(f.dir) <= Len(run.path) + 1
                  /\ Len(f.dir) >= Len(run.path)
                  /\ SubSeq(f.dir, 1, Len(run.path)) = run.path)
                   => \E p \in run.processed : p[1] = f

\* an import of a folder with a file at each of the three levels has finished
C10_Witness ==
    /\ ImportDone
    /\ {PathA, PathB, PathC} \subseteq DOMAIN run.files
    /\ run.processed = {<<PathA, "Default">>, <<PathB, "Sub">>}
    /\ \E i \in 1..Len(run.calls) : run.calls[i].file = PathB

\* the calls of handle_note a run made (a sequence) as a set
Calls(r) == {r.calls[i] : i \in 1..Len(r.calls)}

\* the identifiers the run's files yielded
Yielded == {p[1] : p \in run.yielded}

\* C1: of two imports in a row of an unchanged folder, the second creates no host
\* note, deletes none (reported count 0) and matches every note block to its
\* existing host note (stated here for the runs in which no creation failed)
C1_Idempotent ==
    (ImportedTwice /\ \A c \in Calls(hist[Len(hist) - 1].run) \cup Calls(run) :
                         c.did # "failed") =>
        /\ run.created = {}
        /\ run.deleted = {}
        /\ Get(report.counter, "DELETED") = 0
        /\ \A c \in Calls(run) : c.did \in {"updated", "dropped"}

\* C2: after an import that found a markdown file, the notes deleted are exactly
\* the host's notes whose identifier no file yielded, and every note the run created
\* or updated still exists
C2_DeletionPolicy ==
    (ImportDone /\ DOMAIN imp.deck_counter # {}) =>
        /\ run.deleted = {cid \in DOMAIN host.notes \cup run.deleted : cid \notin Yielded}
        /\ run.created \cup run.updated \subseteq DOMAIN host.notes

\* the blocks the claim C3 is about: no identifier comment, front and back not empty
Unpinned(r) ==
    {c \in Calls(r) : c.current_id = NoId /\ c.front # <<>> /\ c.back # <<>>}

\* the lines written for block c are its own with one identifier comment, that of
\* a host-assigned identifier, directly before the closing blank line
Injected(r, c) ==
    /\ c.id.ty = "int" /\ c.id.v >= r.before.next
    /\ Len(c.out) = Len(c.to_write) + 1
    /\ SubSeq(c.out, 1, Len(c.out) - 2) = SubSeq(c.to_write, 1, Len(c.to_write) - 1)
    /\ c.out[Len(c.out) - 1] = IdComment(c.id)
    /\ c.out[Len(c.out)] = c.to_write[Len(c.to_write)]
    /\ IsBlankLine(c.out[Len(c.out)])
    /\ Cardinality({i \in 1..Len(c.out) : is_id_comment(c.out[i])}) = 1

\* the lines b are in file content a, one after the other
Contains(a, b) ==
    \E i \in 0..(Len(a) - Len(b)) : SubSeq(a, i + 1, i + Len(b)) = b

\* the second import found the identifier injected for block c and used it again:
\* one note carries it, and no note was made under a new identifier
Reused(c) ==
    /\ \E d \in Calls(run) :
           /\ d.file = c.file
           /\ d.current_id = Str(c.id)
           /\ d.id = Str(c.id)
           /\ d.front = c.front /\ d.back = c.back
    /\ c.id.v \in DOMAIN host.notes
    /\ \A k \in run.created : k < run.before.next

\* C3 as stated: every block with front and back and no identifier comment gets,
\* in one pass, one identifier comment directly before its closing blank line, and
\* a second import reuses that identifier
C3_Injection ==
    /\ \A c \in Unpinned(run) :
           /\ Injected(run, c)
           /\ c.file \in Finished => Contains(fs[c.file], c.out)
    /\ ImportedTwice =>
           \A c \in Unpinned(hist[Len(hist) - 1].run) : Reused(c)

\* C3, for the blocks whose note type exists in the host: every such block with
\* front and back and no identifier comment gets, in one pass, exactly one
\* identifier comment, that of the host-assigned identifier, directly before its
\* closing blank line in the rewritten file, and a second import finds that
\* identifier and uses it again instead of making a second note
C3_InjectionWhenCreated ==
    /\ \A c \in Unpinned(run) :
           c.model \in run.before.models =>
               /\ Injected(run, c)
               /\ c.file \in Finished => Contains(fs[c.file], c.out)
    /\ ImportedTwice =>
           \A c \in Unpinned(hist[Len(hist) - 1].run) :
               c.model \in hist[Len(hist) - 1].run.before.models => Reused(c)

\* two imports in a row, the first of which injected an identifier that the second
\* found in the file
C3_Witness ==
    /\ ImportedTwice
    /\ \E c \in Unpinned(hist[Len(hist) - 1].run) :
           /\ c.did = "created"
           /\ \E d \in Calls(run) : d.file = c.file /\ d.current_id = Str(c.id)

\* C4: an import that yields no parsable note (no markdown file, or none with a
\* block that has front and back) tells the user and leaves the host's notes alone
C4_EmptyImport ==
    (ImportDone /\ \A c \in Calls(run) : c.did = "dropped") =>
        /\ host.notes = run.before.notes
        /\ info # <<>>
        /\ info[Len(info)] = Msg("Failed to find any cards inside: ", run.path,
                               EmptyCounter, {})

\* C5: after an import every note a file yielded, created or updated, is in the
\* deck of that file
C5_DeckPlacement ==
    ImportDone =>
        \A p \in run.yielded :
            (p[1] \in DOMAIN host.notes /\ \A q \in run.yielded : q[1] = p[1] => q = p)
                => host.notes[p[1]].decks = {p[2]}

\* C6: import, export, import of the exported folder: the host holds the same
\* (front, back, tag, note type) tuples as after the first import (stated here for
\* a first import that yielded notes)
C6_RoundTrip ==
    (/\ ImportDone
     /\ Len(hist) >= 3
     /\ hist[Len(hist) - 1].op = "export"
     /\ hist[Len(hist) - 2].op = "import"
     /\ hist[Len(hist)].path = ExportFolder(hist[Len(hist) - 1].path)
     /\ hist[Len(hist) - 2].run.yielded # {}
     /\ Tuples(hist[Len(hist) - 2].host) # {})
        => Tuples(hist[Len(hist)].host) = Tuples(hist[Len(hist) - 2].host)

\* C7: at every point of process_file the markdown file is there, and holds its
\* original content until the rewritten one replaces it
C7_AtomicRewrite ==
    \A p \in run.processed :
        /\ p[1] \in DOMAIN fs
        /\ p[1] \notin Finished => fs[p[1]] = run.files[p[1]]

\* front, back and note type of a block as claim C8 gives them: the note type by
\* the opening line; the remainder of the opening line starts front, the remainder
\* of an A: line goes to back, any other line that is no identifier comment goes
\* to front while back is empty and to back afterwards
RECURSIVE ClaimParse(_, _)
ClaimParse(lines, acc) ==
    IF lines = <<>> THEN acc
    ELSE LET l == Head(lines)
             next == IF is_id_comment(l) THEN acc
                     ELSE IF StartsWith(l, "A:")
                     THEN [acc EXCEPT !.back = Append(@, Strip(AfterMarker(l)))]
                     ELSE IF acc.back = <<>>
                     THEN [acc EXCEPT !.front = Append(@, Strip(l))]
                     ELSE [acc EXCEPT !.back = Append(@, Strip(l))]
         IN ClaimParse(Tail(lines), next)

ClaimedNote(block) ==
    ClaimParse(SelectSeq(Tail(block), LAMBDA l : ~IsBlankLine(l)),
               [front |-> <<Strip(AfterMarker(block[1]))>>, back |-> <<>>,
                model |-> IF StartsWith(block[1], "Q:") THEN BASIC_MODEL
                          ELSE REVERSE_MODEL])

\* the lines of the block that ended with line c.last of its file
BlockLines(r, c) ==
    SubSeq(r.files[c.file], BlockOf(r.files[c.file], c.last), c.last)

\* C8: every block with front and back is parsed into front, back and note type
\* as the claim says
C8_BlockParsing ==
    \A c \in Calls(run) :
        (c.front # <<>> /\ c.back # <<>>) =>
            LET n == ClaimedNote(BlockLines(run, c))
            IN c.front = n.front /\ c.back = n.back /\ c.model = n.model
\* the step is a call of export_all_notes
IsExportStep == Len(hist') = Len(hist) + 1 /\ hist'[Len(hist')].op = "export"

\* C11: an export that finds its destination folder Notes already there writes
\* nothing (no folder and no file is created, no file changes) and tells the user
\* that it aborts
C11_ExportAbort ==
    [][(IsExportStep /\ ExportFolder(hist'[Len(hist')].path) \in dirs) =>
           /\ fs' = fs
           /\ dirs' = dirs
           /\ host' = host
           /\ info' = Append(info, Msg("Aborting - 'Notes' folder already exists", ROOT,
                                       EmptyCounter, {}))]_vars

\* an export has just aborted on the folder an earlier export made, after an
\* import changed the host in between
C11_Witness ==
    /\ pc = "idle"
    /\ Len(hist) >= 3
    /\ hist[Len(hist)].op = "export"
    /\ hist[Len(hist) - 1].op = "import"
    /\ hist[Len(hist) - 1].host # hist[1].host
    /\ hist[1].op = "export"
    /\ info # <<>>
    /\ info[Len(info)].text = "Aborting - 'Notes' folder already exists"

\* the calls of handle_note that ended a note block (a Q:/QA: line opened it),
\* leaving out the call at the end of input that finds no block open
BlockCalls(r) == {c \in Calls(r) : c.front # <<>>}

\* C12: a block that ends with front or back empty is dropped without a host
\* note being made or changed, and its buffered lines are all written to the
\* rewritten file unchanged
C12_DroppedKeepsText ==
    \A c \in BlockCalls(run) :
        c.back = <<>> =>
            /\ c.did = "dropped" /\ c.id = NoId
            /\ c.file \in Finished => Contains(fs[c.file], c.to_write)

\* C13: when the identifier comment of a block names a note the host does not
\* have and the note is made again, every buffered line that is no identifier
\* comment is written unchanged, wherever the identifier comment sits
C13_StaleRepair ==
    \A c \in BlockCalls(run) :
        (c.current_id # NoId /\ c.did = "created") =>
            /\ Len(c.out) = Len(c.to_write)
            /\ \A i \in 1..Len(c.to_write) :
                   ~is_id_comment(c.to_write[i]) => c.out[i] = c.to_write[i]

\* front, back and identifier of a block when every Q:/QA: line starts afresh
RECURSIVE ResetParse(_, _)
ResetParse(lines, acc) ==
    IF lines = <<>> THEN acc
    ELSE LET l == Head(lines)
             fresh == IF IsQuestion(l)
                      THEN [acc EXCEPT !.front = <<>>, !.back = <<>>,
                                       !.current_id = NoId, !.model = ""]
                      ELSE acc
         IN ResetParse(Tail(lines),
                       IF IsBlankLine(l) THEN fresh ELSE Classified(fresh, l))

\* C14: a Q:/QA: line starts a new note also inside an open block: the note a
\* block yields has front, back and identifier from the lines from its last
\* Q:/QA: line on, and nothing from the lines before it (stated here for the
\* blocks whose note was made or updated)
C14_QuestionResets ==
    \A c \in {b \in BlockCalls(run) : b.did \in {"created", "updated"}} :
        LET n == ResetParse(BlockLines(run, c),
                            [front |-> <<>>, back |-> <<>>, current_id |-> NoId,
                             model |-> ""])
        IN c.front = n.front /\ c.back = n.back /\ c.current_id = n.current_id

\* C15: no exception of a host call leaves process_file: the import goes on
\* with the remaining lines and the file is finalized
C15_NoEscape == pc # "raised"

\* the step made a call of handle_note that returned
MadeCall == Len(run'.calls) = Len(run.calls) + 1

\* the step made a call of handle_note that an exception left
RaisedCall == Len(run'.raised) = Len(run.raised) + 1

\* C16: process_file makes or updates a host note for a block only when front
\* and back both hold a line at the block's end; a block with front or back
\* empty changes no host note and adds no identifier to the file's set
C16_CompleteOnly ==
    [][pc = "scan" =>
          /\ (host' # host \/ pf'.found # pf.found) =>
                 \/ /\ MadeCall
                    /\ run'.calls[Len(run'.calls)].front # <<>>
                    /\ run'.calls[Len(run'.calls)].back # <<>>
                 \/ /\ RaisedCall
                    /\ run'.raised[Len(run'.raised)].front # <<>>
                    /\ run'.raised[Len(run'.raised)].back # <<>>
          /\ DOMAIN host.notes \subseteq DOMAIN host'.notes
          /\ (MadeCall /\ (run'.calls[Len(run'.calls)].front = <<>>
                              \/ run'.calls[Len(run'.calls)].back = <<>>)) =>
                 (host' = host /\ pf'.found = pf.found)]_vars

\* a block that carries the identifier of a host note but has no answer was
\* dropped: the note is as it was and its identifier is not in the file's set
C16_Witness ==
    /\ pc = "remove"
    /\ \E c \in Calls(run) :
           /\ c.did = "dropped" /\ c.front # <<>> /\ c.back = <<>>
           /\ c.current_id # NoId /\ c.current_id.v \in DOMAIN run.before.notes
           /\ c.file = pf.file
    /\ host = run.before
    /\ pf.found = {}

\* the files whose input process_file has read to the end in this run
ReadThrough == Finished \cup (IF pc \in {"remove", "rename"} THEN {pf.file} ELSE {})

\* the call of handle_note made at the end of the input of file f
EofCall(f) ==
    run.calls[CHOOSE i \in 1..Len(run.calls) :
                  /\ run.calls[i].file = f
                  /\ \A j \in (i + 1)..Len(run.calls) : run.calls[j].file # f]

\* line l ending with a line end
Terminated(l) == IF l # <<>> /\ l[Len(l)] = NL THEN l ELSE Append(l, NL)

\* the lines of the block open at the end of content c, the last one terminated
OpenBlock(c) ==
    LET b == SubSeq(c, BlockOf(c, Len(c)), Len(c))
    IN [b EXCEPT ![Len(b)] = Terminated(@)]

\* what process_file has written for file f
Rewritten(f) == IF f \in Finished THEN fs[f] ELSE fs[TempOf(f)]

\* lines b are the last lines of content a
EndsWith(a, b) == Len(a) >= Len(b) /\ SubSeq(a, Len(a) - Len(b) + 1, Len(a)) = b

\* C17: a block still open when the input ends is resolved once, as if a blank
\* line followed it: its note is made or updated, its identifier is in the
\* file's set, and the rewritten file ends with the block's lines, the identifier
\* comment and a blank line; when no block is open the end of input makes no
\* host call and writes nothing (stated here for the open blocks with front and
\* back that carry no identifier or that of a note the host has, and whose note
\* the host did not refuse)
C17_EndOfFile ==
    \A f \in ReadThrough :
        LET e == EofCall(f)
            c == run.files[f]
        IN IF e.front = <<>>
           THEN e.did = "dropped" /\ e.out = <<>> /\ e.id = NoId
           ELSE (/\ e.back # <<>>
                 /\ e.did # "failed"
                 /\ e.did = "created" => e.current_id = NoId) =>
                LET b == OpenBlock(c)
                IN /\ e.did \in {"created", "updated"}
                   /\ Cardinality({i \in 1..Len(run.calls) :
                                     /\ run.calls[i].file = f
                                     /\ run.calls[i].last = Len(c)}) = 1
                   /\ f \in Finished => \E y \in run.yielded : y[1] = e.id.v
                   /\ IF e.current_id = NoId
                      THEN e.out = b \o <<IdComment(e.id), <<NL>>>>
                      ELSE /\ Len(e.out) = Len(b) + 1
                           /\ e.out[Len(e.out)] = <<NL>>
                           /\ \A i \in 1..Len(b) :
                                  ~is_id_comment(b[i]) => e.out[i] = b[i]
                   /\ EndsWith(Rewritten(f), e.out)

\* the calls of handle_note on a block with front and back whose note the host
\* refused: add_note returned no identifier
Refused(r) == {c \in BlockCalls(r) : c.back # <<>> /\ c.did = "failed"}

\* C18 as stated: the buffered lines of a block are written to the rewritten
\* file only when its note was made or updated; the buffer of a block whose
\* note the host refused is never written
C18_FlushOnlyOnSuccess ==
    \A c \in Refused(run) :
        /\ c.out = <<>>
        /\ c.file \in Finished => ~Contains(fs[c.file], c.to_write)

\* C18, the other way round: the buffered lines of every block with front and
\* back are written to the rewritten file, whether its note was made, updated
\* or refused; for a refused note they are written as they are, with no
\* identifier comment added, and no identifier joins the file's set
C18_FlushAlways ==
    \A c \in BlockCalls(run) :
        c.back # <<>> =>
            /\ Len(c.out) >= Len(c.to_write)
            /\ c.file \in Finished => Contains(fs[c.file], c.out)
            /\ c.did = "failed" => (c.out = c.to_write /\ c.id = NoId)

\* an import has finished in which the host refused a note, and the block's
\* lines are in the rewritten file
C18_Witness ==
    /\ ImportDone
    /\ \E c \in Refused(run) :
           /\ c.file \in Finished
           /\ Contains(fs[c.file], c.to_write)
           /\ \A i \in 1..Len(c.to_write) : ~is_id_comment(c.to_write[i])

\* C19: the count delete_notes returns, reported as DELETED, is the number of
\* host notes the call removed, also when a note is listed under two decks
C19_ExactCount ==
    (ImportDone /\ DOMAIN imp.deck_counter # {}) =>
        /\ run.deleted \cap DOMAIN host.notes = {}
        /\ Get(report.counter, "DELETED") = Cardinality(run.deleted)
====
